---- MODULE Spec2Model ----
(***************************************************************************)
(* Agent commission ledger and payout settlement of CessPlug-Server.       *)
(*                                                                         *)
(* The persistent state is the three MongoDB collections the engine works  *)
(* on (Commission, PayoutRequest, PayoutSettings) plus the per-agent       *)
(* payout hold of the User collection.  Every HTTP handler is a process    *)
(* that advances from one database round trip (an `await`) to the next;    *)
(* what it holds in memory between two round trips is its local state.     *)
(* Document ids are positions in the collection, which is also the order   *)
(* of creation (createdAt ascending).                                      *)
(***************************************************************************)
EXTENDS Integers, Sequences, FiniteSets, TLC

(***************************************************************************)
(* Bounds of the model.                                                    *)
(***************************************************************************)
NProcs == 2
MaxCommissions == 4
MaxPayouts == 2
MaxDailyCreates == 6
MaxHistory == 2

Procs == 1..NProcs

(***************************************************************************)
(* The excluded collaborators: agents and orders.  An order carries the    *)
(* total the commission is computed against, the number of items and the   *)
(* agent that created it / delivers it.                                    *)
(***************************************************************************)
Agents == {"a1", "a2"}
Orders == {1, 2, 3}

OrderTotalPrice(o) == CASE o = 1 -> 3333 [] o = 2 -> 5000 [] OTHER -> 10
OrderItemCount(o)  == 1
OrderAgent(o)      == IF o = 2 THEN "a2" ELSE "a1"

\* the order events that fire createCommission
Triggers == { <<1, "agent_order">>, <<1, "delivery">>, <<3, "agent_order">> }

\* the agents that ask for a payout, and the amounts they ask for
Requesters == {"a1"}
PayoutAmounts == {200}

(***************************************************************************)
(* PayoutSettings defaults (getCurrentSettings / schema defaults).         *)
(***************************************************************************)
DefaultMinWithdrawal == 100
DefaultMaxWithdrawal == 50000
DefaultDeliveryAmount == 200
DefaultAgentOrderPercent == 3
DefaultAutoApprovalThreshold == 1000
DefaultMaxPayoutsPerDay == 5
DefaultMaxPayoutAmountPerDay == 100000
DefaultScheduleDay == 5

\* "HH:MM" strings as sequences of character codes ("0" is 48, ":" is 58)
TimeString(h1, h2, m1, m2) == <<48 + h1, 48 + h2, 58, 48 + m1, 48 + m2>>
DefaultStartTime == TimeString(0, 7, 0, 0)
DefaultEndTime   == TimeString(2, 3, 5, 9)

DefaultSettings ==
  [ minWithdrawalAmount    |-> DefaultMinWithdrawal,
    maxWithdrawalAmount    |-> DefaultMaxWithdrawal,
    deliveryAmount         |-> DefaultDeliveryAmount,
    agentOrderPercent      |-> DefaultAgentOrderPercent,
    globalPayoutHold       |-> FALSE,
    processingFee          |-> 0,
    autoApprovalThreshold  |-> DefaultAutoApprovalThreshold,
    requireManagerApproval |-> FALSE,
    maxPayoutsPerDay       |-> DefaultMaxPayoutsPerDay,
    maxPayoutAmountPerDay  |-> DefaultMaxPayoutAmountPerDay,
    modificationHistory    |-> <<>>,
    payoutSchedule         |-> [ enabled |-> FALSE, dayOfWeek |-> DefaultScheduleDay,
                                 startTime |-> DefaultStartTime,
                                 endTime |-> DefaultEndTime ] ]

VARIABLES
  commissions,   \* Commission collection, in creation order
  payouts,       \* PayoutRequest collection, in creation order
  settings,      \* PayoutSettings collection (rows), in creation order
  agentHold,     \* User.payoutHold.isHeld per agent
  now,           \* the server clock, in hours since a Sunday 00:00
  orders,        \* Order.status per order, "none" before the order exists
  proc           \* the handlers in flight: position and in-memory documents

vars == <<commissions, payouts, settings, agentHold, now, orders, proc>>

(***************************************************************************)
(* Generic helpers.                                                        *)
(***************************************************************************)
RECURSIVE SumAmount(_)
SumAmount(s) == IF s = <<>> THEN 0 ELSE Head(s).amount + SumAmount(Tail(s))

RECURSIVE Ascending(_)
\* a set of ids (positions) as a sequence in creation order
Ascending(S) ==
  IF S = {} THEN <<>>
  ELSE LET m == CHOOSE x \in S : \A y \in S : x <= y
       IN <<m>> \o Ascending(S \ {m})

\* Math.round for a non-negative rational num/den
MathRound(num, den) == (2 * num + den) \div (2 * den)

IdleProc ==
  [ pc |-> "idle", errors |-> {}, next |-> -1, flag |-> FALSE, h |-> "none", agent |-> "a1", order |-> 0, type |-> "none",
    rid |-> 0, act |-> "none", amount |-> 0, st |-> "none",
    validated |-> FALSE, auto |-> FALSE,
    docs |-> <<>>, upd |-> <<>>, paidIds |-> <<>>, remaining |-> 0,
    rest |-> 0, k |-> 0, cfg |-> DefaultSettings, cfgId |-> 0,
    ret |-> "none", out |-> 0, failed |-> FALSE, memPaid |-> FALSE,
    body |-> 0, last |-> [order |-> 0, type |-> "none", out |-> 0],
    before |-> [order |-> 0, type |-> "none", out |-> 0],
    ids |-> <<>>, todo |-> <<>>, j |-> 0, count |-> 0, reported |-> {},
    snapC |-> <<>>, snapP |-> <<>> ]

Init ==
  /\ commissions = <<>>
  /\ payouts = <<>>
  /\ settings = <<>>
  /\ agentHold = [a \in Agents |-> FALSE]
  /\ now = 0
  /\ orders = [o \in Orders |-> "none"]
  /\ proc = [p \in Procs |-> IdleProc]

Idle(p) == proc[p].pc = "idle"

\* A request is taken by the first free worker.  ov is the set of handler
\* kinds that may run while another handler of ov is in flight; every other
\* handler runs alone.
CanStart(p, h, ov) ==
  /\ Idle(p)
  /\ \A q \in Procs : q < p => ~Idle(q)
  /\ \A q \in Procs \ {p} : Idle(q) \/ (h \in ov /\ proc[q].h \in ov)

Set(p, r) == proc' = [proc EXCEPT ![p] = r]

(***************************************************************************)
(* Commission Rate Calculator: Commission.calculateCommission.             *)
(***************************************************************************)
calculateCommission(orderTotal, type, deliveryCount, cfg) ==
  IF type = "delivery"
  THEN [ amount |-> cfg.deliveryAmount * deliveryCount,
         rate |-> cfg.deliveryAmount, isFixedAmount |-> TRUE,
         deliveryCount |-> deliveryCount ]
  ELSE LET pct == IF cfg.agentOrderPercent = 0 THEN DefaultAgentOrderPercent
                  ELSE cfg.agentOrderPercent
       IN [ amount |-> MathRound(orderTotal * pct, 100),
            rate |-> pct, isFixedAmount |-> FALSE,
            deliveryCount |-> deliveryCount ]

(***************************************************************************)
(* createCommission(orderId, agentId, type)                                *)
(***************************************************************************)
\* Commission.findOne({orderId, agentId, type}): the first match, 0 if none
MatchesTriple_PendingOnly(c, o, a, t) ==
  c.orderId = o /\ c.agentId = a /\ c.type = t /\ c.status = "pending"

MatchesTriple(c, o, a, t) == c.orderId = o /\ c.agentId = a /\ c.type = t

findOneCommission(o, a, t) ==
  LET ids == Ascending({i \in 1..Len(commissions) :
                          MatchesTriple(commissions[i], o, a, t)})
  IN IF ids = <<>> THEN 0 ELSE Head(ids)

\* the description of a new entry; a description is the sequence of the
\* fragments the code concatenates
CommissionText(t) ==
  IF t = "delivery" THEN <<"Delivery commission">> ELSE <<"Agent order commission">>

\* Commission.create: the fields every caller passes, and the schema
\* defaults of the fields a caller may leave out (isFixedAmount false,
\* deliveryCount 1, no settingsVersion)
NewCommission(o, a, t, amt) ==
  [ orderId |-> o, agentId |-> a, type |-> t, amount |-> amt,
    status |-> "pending", payoutRequestId |-> 0, description |-> CommissionText(t),
    orderTotal |-> OrderTotalPrice(o), commissionRate |-> 0,
    isFixedAmount |-> FALSE, deliveryCount |-> 1, settingsVersion |-> 0 ]

\* the suffixes a split appends: the admin pay and the auto-payment differ
SplitRemaining(h) ==
  IF h = "create" THEN "(Auto-Split - Remaining)" ELSE "(Split - Remaining)"

SplitPaid(h) ==
  IF h = "create" THEN "(Auto-Split - Paid)" ELSE "(Split - Paid)"

\* where createCommission returns to: the order handler that called it, or
\* the caller of a bare createCommission
AfterRecord(r) == IF r.h = "order_status" THEN "oe_save" ELSE "respond"

\* the order event fires; Order.findById, User.findById, Commission.findOne
RecordStart(p, ov) ==
  /\ CanStart(p, "record", ov)
  /\ \E tr \in Triggers :
       LET o == tr[1]
           t == tr[2]
           a == OrderAgent(o)
           found == findOneCommission(o, a, t)
           base == [IdleProc EXCEPT !.h = "record", !.order = o, !.type = t,
                      !.agent = a, !.snapC = commissions, !.snapP = payouts,
                      !.before = proc[p].last]
       IN IF found # 0
          THEN Set(p, [base EXCEPT !.pc = "respond", !.ret = "ok", !.out = found])
          ELSE Set(p, [base EXCEPT !.pc = "rc_settings"])
  /\ UNCHANGED <<commissions, payouts, settings, agentHold, now, orders>>

\* PayoutSettings.getCurrentSettings: findOne, then create when none exists
RecordSettings(p) ==
  /\ proc[p].pc = "rc_settings"
  /\ IF settings = <<>>
     THEN Set(p, [proc[p] EXCEPT !.pc = "rc_mksettings"])
     ELSE Set(p, [proc[p] EXCEPT !.pc = "rc_create", !.cfg = settings[1], !.cfgId = 1])
  /\ UNCHANGED <<commissions, payouts, settings, agentHold, now, orders>>

RecordMakeSettings(p) ==
  /\ proc[p].pc = "rc_mksettings"
  /\ settings' = Append(settings, DefaultSettings)
  /\ Set(p, [proc[p] EXCEPT !.pc = "rc_create", !.cfg = DefaultSettings,
                            !.cfgId = Len(settings) + 1])
  /\ UNCHANGED <<commissions, payouts, agentHold, now, orders>>

\* Commission.create with the calculated amount
RecordCreate(p) ==
  /\ proc[p].pc = "rc_create"
  /\ Len(commissions) < MaxCommissions
  /\ LET r == proc[p]
         data == calculateCommission(OrderTotalPrice(r.order), r.type,
                                     OrderItemCount(r.order), r.cfg)
     IN /\ commissions' = Append(commissions,
              [ NewCommission(r.order, r.agent, r.type, data.amount)
                  EXCEPT !.commissionRate = data.rate,
                         !.isFixedAmount = data.isFixedAmount,
                         !.deliveryCount = data.deliveryCount,
                         !.settingsVersion = r.cfgId ])
        /\ Set(p, [r EXCEPT !.pc = AfterRecord(r), !.ret = "ok",
                            !.out = Len(commissions) + 1])
  /\ UNCHANGED <<payouts, settings, agentHold, now, orders>>


(***************************************************************************)
(* Settlement: the allocation loop shared by processPayoutRequest (pay)    *)
(* and the auto-payment of createPayoutRequest.                            *)
(***************************************************************************)
\* Commission.find({agentId, status: 'pending'}).sort({createdAt: 1}),
\* as in-memory documents
PendingDocs(a) ==
  LET ids == Ascending({i \in 1..Len(commissions) :
                          /\ commissions[i].agentId = a
                          /\ commissions[i].status = "pending"})
  IN [j \in 1..Len(ids) |->
        [ id |-> ids[j], amount |-> commissions[ids[j]].amount,
          orderId |-> commissions[ids[j]].orderId,
          type |-> commissions[ids[j]].type,
          description |-> commissions[ids[j]].description,
          orderTotal |-> commissions[ids[j]].orderTotal,
          commissionRate |-> commissions[ids[j]].commissionRate,
          settingsVersion |-> commissions[ids[j]].settingsVersion ]]

PayWhole_Strict(amount, remainingAmount) == amount < remainingAmount

\* commission.amount <= remainingAmount: the entry is paid whole
PayWhole(amount, remainingAmount) == amount <= remainingAmount

InsufficientPending_Swapped(totalPendingAmount, amount) ==
  totalPendingAmount > amount

\* totalPendingAmount < payoutRequest.amount
InsufficientPending(totalPendingAmount, amount) == totalPendingAmount < amount

EmptyPlan(amount) ==
  [ upd |-> <<>>, paidIds |-> <<>>, remaining |-> amount, rest |-> 0 ]

RECURSIVE Allocate(_, _, _)
\* for (const commission of pendingCommissions) { ... }
Allocate(docs, i, acc) ==
  IF i > Len(docs) \/ acc.remaining <= 0 THEN acc
  ELSE IF PayWhole(docs[i].amount, acc.remaining)
       THEN Allocate(docs, i + 1,
              [acc EXCEPT !.upd = Append(@, [id |-> docs[i].id,
                                             amount |-> docs[i].amount,
                                             description |-> docs[i].description,
                                             split |-> FALSE]),
                          !.paidIds = Append(@, docs[i].id),
                          !.remaining = @ - docs[i].amount])
       ELSE [acc EXCEPT !.upd = Append(@, [id |-> docs[i].id,
                                           amount |-> acc.remaining,
                                           description |-> docs[i].description,
                                           split |-> TRUE]),
                        !.paidIds = Append(@, docs[i].id),
                        !.rest = docs[i].amount - acc.remaining,
                        !.remaining = 0]

HasSplit(plan) == plan.upd # <<>> /\ plan.upd[Len(plan.upd)].split

\* the auto-payment inside create pays only when the pending balance covers
\* the request
AutoPaymentCovered_Always(total, amount) == TRUE
AutoPaymentCovered(total, amount) == total >= amount

\* the find and the synchronous part of the loop, up to the first write
SettleFind(p) ==
  /\ proc[p].pc = "find"
  /\ LET r == proc[p]
         docs == PendingDocs(r.agent)
         plan == Allocate(docs, 1, EmptyPlan(r.amount))
         planned == [r EXCEPT !.docs = docs, !.upd = plan.upd,
                              !.paidIds = plan.paidIds,
                              !.remaining = plan.remaining,
                              !.rest = plan.rest, !.k = 1,
                              !.pc = IF HasSplit(plan) THEN "split" ELSE "save"]
     IN IF r.h = "process"
        THEN IF InsufficientPending(SumAmount(docs), r.amount)
             THEN Set(p, [r EXCEPT !.docs = docs, !.pc = "respond",
                                   !.ret = "insufficient"])
             ELSE Set(p, planned)
        ELSE IF AutoPaymentCovered(SumAmount(docs), r.amount)
             THEN Set(p, planned)
             ELSE \* not enough balance: only a note is saved on the request
                  Set(p, [r EXCEPT !.docs = docs, !.pc = "respond",
                                   !.ret = "ok", !.out = r.rid])
  /\ UNCHANGED <<commissions, payouts, settings, agentHold, now, orders>>

\* the fields the split passes to Commission.create: both paths copy
\* orderTotal and commissionRate, only the auto-payment copies
\* settingsVersion, neither passes isFixedAmount or deliveryCount
SplitRemainder(orig, a, rest, h) ==
  [ NewCommission(orig.orderId, a, orig.type, rest)
      EXCEPT !.orderTotal = orig.orderTotal,
             !.commissionRate = orig.commissionRate,
             !.settingsVersion = IF h = "create" THEN orig.settingsVersion ELSE @,
             !.description = Append(orig.description, SplitRemaining(h)) ]

\* Commission.create of the pending remainder of a split
SettleSplit(p) ==
  /\ proc[p].pc = "split"
  /\ Len(commissions) < MaxCommissions
  /\ LET r == proc[p]
         orig == r.docs[Len(r.upd)]
     IN /\ commissions' = Append(commissions,
                                 SplitRemainder(orig, r.agent, r.rest, r.h))
        /\ Set(p, [r EXCEPT !.pc = "save"])
  /\ UNCHANGED <<payouts, settings, agentHold, now, orders>>

\* commission.save(): the modified paths of the in-memory document
SavePaid(c, u, rid, h) ==
  [c EXCEPT !.status = "paid", !.payoutRequestId = rid,
            !.amount = IF u.split THEN u.amount ELSE @,
            !.description = IF u.split THEN Append(u.description, SplitPaid(h)) ELSE @]

SettleSave(p) ==
  /\ proc[p].pc = "save"
  /\ LET r == proc[p]
     IN IF r.k > Len(r.upd)
        THEN /\ Set(p, [r EXCEPT !.pc = "paid"])
             /\ UNCHANGED commissions
        ELSE /\ commissions' = [commissions EXCEPT ![r.upd[r.k].id] =
                                  SavePaid(@, r.upd[r.k], r.rid, r.h)]
             /\ Set(p, [r EXCEPT !.k = @ + 1])
  /\ UNCHANGED <<payouts, settings, agentHold, now, orders>>

\* payoutRequest.save() of the paid transition with the commission ids
MarkPaid(q, ids) == [q EXCEPT !.status = "paid", !.commissionIds = ids]

SettlePaid(p) ==
  /\ proc[p].pc = "paid"
  /\ LET r == proc[p]
     IN IF r.h = "process" /\ r.amount - r.remaining # r.amount
        THEN /\ Set(p, [r EXCEPT !.pc = "respond", !.ret = "processing_error"])
             /\ UNCHANGED payouts
        ELSE /\ payouts' = [payouts EXCEPT ![r.rid] = MarkPaid(@, r.paidIds)]
             /\ Set(p, [r EXCEPT !.pc = "respond", !.ret = "ok", !.out = r.rid])
  /\ UNCHANGED <<commissions, settings, agentHold, now, orders>>

\* a write of the settlement is refused by the database
SettleFail(p) ==
  /\ proc[p].pc \in {"split", "save", "paid"}
  /\ proc[p].pc = "save" => proc[p].k <= Len(proc[p].upd)
  /\ LET r == proc[p]
     IN IF r.h = "process"
        THEN Set(p, [r EXCEPT !.pc = "respond", !.ret = "error", !.failed = TRUE])
        ELSE Set(p, [r EXCEPT !.pc = "catch", !.failed = TRUE,
                              !.memPaid = (r.pc = "paid")])
  /\ UNCHANGED <<commissions, payouts, settings, agentHold, now, orders>>

\* catch (autoPayError): payoutRequest.save() of whatever the in-memory
\* request holds by then
SettleCatch(p) ==
  /\ proc[p].pc = "catch"
  /\ LET r == proc[p]
     IN /\ payouts' = IF r.memPaid
                      THEN [payouts EXCEPT ![r.rid] = MarkPaid(@, r.paidIds)]
                      ELSE payouts
        /\ Set(p, [r EXCEPT !.pc = "respond", !.ret = "ok", !.out = r.rid])
  /\ UNCHANGED <<commissions, settings, agentHold, now, orders>>

StepSettle(p) ==
  \/ SettleFind(p)
  \/ SettleSplit(p)
  \/ SettleSave(p)
  \/ SettlePaid(p)

(***************************************************************************)
(* Payout window: day of week and "HH:MM" of the server clock.             *)
(***************************************************************************)
TickHours == 8
MaxNow == 8
DayHours == 24

currentDay(t) == (t \div DayHours) % 7
currentTime(t) ==
  LET hh == t % DayHours IN TimeString(hh \div 10, hh % 10, 0, 0)

RECURSIVE StrLess(_, _)
\* JavaScript's < on strings: code unit by code unit, a proper prefix is less
StrLess(s, t) ==
  IF t = <<>> THEN FALSE
  ELSE IF s = <<>> THEN TRUE
  ELSE IF Head(s) # Head(t) THEN Head(s) < Head(t)
  ELSE StrLess(Tail(s), Tail(t))

StrLeq(s, t) == s = t \/ StrLess(s, t)

\* isCorrectDay && isWithinTimeRange of validatePayoutRequest
WithinWindow(sched, t) ==
  /\ currentDay(t) = sched.dayOfWeek
  /\ StrLeq(sched.startTime, currentTime(t))
  /\ StrLeq(currentTime(t), sched.endTime)

\* startTime.split(':') with parseInt: <<hours, minutes>>
SplitTime(s) ==
  IF Len(s) = 5
  THEN << (s[1] - 48) * 10 + (s[2] - 48), (s[4] - 48) * 10 + (s[5] - 48) >>
  ELSE << s[1] - 48, (s[3] - 48) * 10 + (s[4] - 48) >>

\* an instant in minutes: midnight of the day of t moved by days, then
\* setHours(hours, minutes, 0, 0)
AtTime(t, days, hm) ==
  ((t \div DayHours) + days) * DayHours * 60 + hm[1] * 60 + hm[2]

\* the next window of validatePayoutRequest and of the settings controller:
\* a week ahead when today is the day and currentTime > endTime as strings
NextWindowByText(sched, t) ==
  LET daysUntilNext == (sched.dayOfWeek - currentDay(t) + 7) % 7
  IN IF daysUntilNext = 0 /\ StrLess(sched.endTime, currentTime(t))
     THEN AtTime(t, 7, SplitTime(sched.startTime))
     ELSE AtTime(t, daysUntilNext, SplitTime(sched.startTime))

\* the next window of the admin settings controller: today only when the
\* current minute of the day is before the start minute
NextWindowByMinutes(sched, t) ==
  LET daysUntilNext == (sched.dayOfWeek - currentDay(t) + 7) % 7
      hm == SplitTime(sched.startTime)
  IN IF daysUntilNext = 0 /\ (t % DayHours) * 60 < hm[1] * 60 + hm[2]
     THEN AtTime(t, 0, hm)
     ELSE AtTime(t, IF daysUntilNext = 0 THEN 7 ELSE daysUntilNext, hm)

(***************************************************************************)
(* validatePayoutRequest (middleware) and createPayoutRequest.             *)
(***************************************************************************)
Outstanding == {"pending", "approved", "on_hold"}

\* PayoutRequest.findOne({agentId, status: {$in: [pending, approved, on_hold]}})
ExistingPayout(a) ==
  \E i \in 1..Len(payouts) :
     payouts[i].agentId = a /\ payouts[i].status \in Outstanding

\* PayoutRequest.find({agentId, createdAt: {$gte: now - 24h}})
RecentPayouts(a, t) ==
  LET ids == Ascending({i \in 1..Len(payouts) :
                          /\ payouts[i].agentId = a
                          /\ payouts[i].createdAt >= t - DayHours})
  IN [j \in 1..Len(ids) |-> payouts[ids[j]]]

willAutoApprove(cfg, amount) ==
  ~cfg.requireManagerApproval /\ amount <= cfg.autoApprovalThreshold

\* the errors collected by validatePayoutRequest for a settings row cfg
ValidationErrors(cfg, a, amount, t) ==
  LET availableBalance == SumAmount(PendingDocs(a))
      recent == RecentPayouts(a, t)
  IN  (IF cfg.globalPayoutHold THEN {"global_hold"} ELSE {})
      \cup (IF amount < cfg.minWithdrawalAmount THEN {"min"} ELSE {})
      \cup (IF amount > cfg.maxWithdrawalAmount THEN {"max"} ELSE {})
      \cup (IF cfg.payoutSchedule.enabled /\ ~WithinWindow(cfg.payoutSchedule, t)
            THEN {"window"} ELSE {})
      \cup (IF amount > availableBalance THEN {"balance"} ELSE {})
      \cup (IF ExistingPayout(a) THEN {"existing"} ELSE {})
      \cup (IF willAutoApprove(cfg, amount) /\ agentHold[a]
            THEN {"agent_hold"} ELSE {})
      \cup (IF willAutoApprove(cfg, amount)
               /\ Len(recent) >= cfg.maxPayoutsPerDay
            THEN {"daily_count"} ELSE {})
      \cup (IF willAutoApprove(cfg, amount)
               /\ SumAmount(recent) + amount > cfg.maxPayoutAmountPerDay
            THEN {"daily_amount"} ELSE {})

\* the middleware: without a settings row the request goes through unchecked
CreateStart(p, ov) ==
  /\ CanStart(p, "create", ov)
  /\ \E a \in Requesters, amount \in PayoutAmounts :
       LET base == [IdleProc EXCEPT !.h = "create", !.agent = a,
                                    !.amount = amount]
       IN IF settings = <<>>
          THEN Set(p, [base EXCEPT !.pc = "cp_create", !.validated = FALSE])
          ELSE IF ValidationErrors(settings[1], a, amount, now) # {}
               THEN Set(p, [base EXCEPT !.pc = "respond", !.ret = "validation",
                              !.errors = ValidationErrors(settings[1], a,
                                                          amount, now),
                              !.next =
                                IF "window" \in ValidationErrors(settings[1],
                                                   a, amount, now)
                                THEN NextWindowByText(
                                       settings[1].payoutSchedule, now)
                                ELSE -1])
               ELSE Set(p, [base EXCEPT !.pc = "cp_create", !.validated = TRUE,
                                        !.cfg = settings[1], !.cfgId = 1])
  /\ UNCHANGED <<commissions, payouts, settings, agentHold, now, orders>>

shouldAutoApprove(r) == r.validated /\ willAutoApprove(r.cfg, r.amount)

NewPayout(a, amount, status, t) ==
  [ agentId |-> a, amount |-> amount, status |-> status,
    commissionIds |-> <<>>, createdAt |-> t ]

\* the controller up to PayoutRequest.create; the collection holds at most
\* cap requests
CreatePersistUpTo(p, cap) ==
  /\ proc[p].pc = "cp_create"
  /\ LET r == proc[p]
     IN IF r.validated /\ r.cfg.processingFee > 0 /\ r.amount <= r.cfg.processingFee
        THEN /\ Set(p, [r EXCEPT !.pc = "respond", !.ret = "fee"])
             /\ UNCHANGED payouts
        ELSE /\ Len(payouts) < cap
             /\ payouts' = Append(payouts,
                   NewPayout(r.agent, r.amount,
                             IF shouldAutoApprove(r) THEN "approved" ELSE "pending",
                             now))
             /\ Set(p, [r EXCEPT !.rid = Len(payouts) + 1,
                                 !.auto = shouldAutoApprove(r),
                                 !.st = IF shouldAutoApprove(r) THEN "approved"
                                        ELSE "pending",
                                 !.snapC = commissions, !.snapP = payouts',
                                 !.out = Len(payouts) + 1,
                                 !.ret = "ok",
                                 !.pc = IF shouldAutoApprove(r) THEN "find"
                                        ELSE "respond"])
  /\ UNCHANGED <<commissions, settings, agentHold, now, orders>>

CreatePersist(p) == CreatePersistUpTo(p, MaxPayouts)

(***************************************************************************)
(* processPayoutRequest: approve, pay, reject, hold, release.              *)
(***************************************************************************)
AdminActions == {"approve", "pay", "reject", "hold", "release"}

\* the status checks made on the loaded request before anything is written
Refusal(st, act, reasonOk) ==
  IF st = "paid" THEN "already_paid"
  ELSE IF st = "rejected" THEN "already_rejected"
  ELSE IF act = "approve" /\ st # "pending" THEN "not_pending"
  ELSE IF act = "pay" /\ st \notin {"pending", "approved"} THEN "not_payable"
  ELSE IF act = "reject" /\ ~reasonOk THEN "bad_reason"
  ELSE IF act = "release" /\ st # "on_hold" THEN "not_held"
  ELSE "none"

\* the status an accepted action saves
StatusAfter(act) ==
  CASE act = "approve" -> "approved"
    [] act = "pay"     -> "paid"
    [] act = "reject"  -> "rejected"
    [] act = "hold"    -> "on_hold"
    [] act = "release" -> "pending"

\* PayoutRequest.findById and the checks on the loaded document
ProcessStart(p, ov, acts) ==
  /\ CanStart(p, "process", ov)
  /\ \E rid \in 1..Len(payouts), act \in acts, reasonOk \in BOOLEAN :
       /\ (act # "reject") => reasonOk
       /\ LET q == payouts[rid]
              base == [IdleProc EXCEPT !.h = "process", !.rid = rid, !.act = act,
                         !.agent = q.agentId, !.amount = q.amount,
                         !.st = q.status,
                         !.snapC = commissions, !.snapP = payouts]
              why == Refusal(q.status, act, reasonOk)
          IN IF why # "none"
             THEN Set(p, [base EXCEPT !.pc = "respond", !.ret = why])
             ELSE Set(p, [base EXCEPT !.pc = IF act = "pay" THEN "find"
                                             ELSE "write"])
  /\ UNCHANGED <<commissions, payouts, settings, agentHold, now, orders>>

\* approve(), reject(), or the inline hold / release followed by save():
\* only a status that differs from the loaded one is a modified path
ProcessWrite(p) ==
  /\ proc[p].pc = "write"
  /\ LET r == proc[p]
     IN /\ payouts' = IF StatusAfter(r.act) # r.st
                      THEN [payouts EXCEPT ![r.rid].status = StatusAfter(r.act)]
                      ELSE payouts
        /\ Set(p, [r EXCEPT !.pc = "respond", !.ret = "ok", !.out = r.rid])
  /\ UNCHANGED <<commissions, settings, agentHold, now, orders>>

(***************************************************************************)
(* cancelCommissionsForOrder: one updateMany.                              *)
(***************************************************************************)
CancelMatches_AnyStatus(c, o) == c.orderId = o

\* the filter { orderId, status: 'pending' } of the updateMany
CancelMatches(c, o) == c.orderId = o /\ c.status = "pending"

CancelOrder(p, ov) ==
  /\ CanStart(p, "cancel", ov)
  /\ \E o \in Orders :
       /\ commissions' = [i \in 1..Len(commissions) |->
            IF CancelMatches(commissions[i], o)
            THEN [commissions[i] EXCEPT !.status = "cancelled"]
            ELSE commissions[i]]
       /\ Set(p, [IdleProc EXCEPT !.h = "cancel", !.order = o,
                    !.pc = "respond", !.ret = "ok",
                    !.snapC = commissions, !.snapP = payouts])
  /\ UNCHANGED <<payouts, settings, agentHold, now, orders>>

(***************************************************************************)
(* Admin settings: updatePayoutSettings and setAgentPayoutHold.            *)
(***************************************************************************)
SundaySchedule ==
  [ enabled |-> TRUE, dayOfWeek |-> 0,
    startTime |-> DefaultStartTime, endTime |-> DefaultEndTime ]

\* request bodies: `has` lists the fields that are not undefined
\* schedules written with a one-digit hour, which the schema's pattern accepts
ShortTimeString(h, m1, m2) == <<48 + h, 58, 48 + m1, 48 + m2>>
MorningSchedule ==
  [ enabled |-> TRUE, dayOfWeek |-> 0,
    startTime |-> ShortTimeString(7, 0, 0), endTime |-> ShortTimeString(9, 0, 0) ]
MixedSchedule ==
  [ enabled |-> TRUE, dayOfWeek |-> 0,
    startTime |-> ShortTimeString(7, 0, 0), endTime |-> DefaultEndTime ]

SettingsBodies ==
  << [ has |-> {"requireManagerApproval"}, requireManagerApproval |-> TRUE,
       payoutSchedule |-> SundaySchedule, globalPayoutHold |-> FALSE ],
     [ has |-> {"payoutSchedule"}, requireManagerApproval |-> FALSE,
       payoutSchedule |-> SundaySchedule, globalPayoutHold |-> FALSE ],
     [ has |-> {"globalPayoutHold"}, requireManagerApproval |-> FALSE,
       payoutSchedule |-> SundaySchedule, globalPayoutHold |-> TRUE ],
     [ has |-> {"payoutSchedule"}, requireManagerApproval |-> FALSE,
       payoutSchedule |-> MorningSchedule, globalPayoutHold |-> FALSE ],
     [ has |-> {"payoutSchedule"}, requireManagerApproval |-> FALSE,
       payoutSchedule |-> MixedSchedule, globalPayoutHold |-> FALSE ] >>

ApplyBody(row, b) ==
  [row EXCEPT
     !.requireManagerApproval =
        IF "requireManagerApproval" \in b.has THEN b.requireManagerApproval ELSE @,
     !.payoutSchedule =
        IF "payoutSchedule" \in b.has THEN b.payoutSchedule ELSE @,
     !.globalPayoutHold =
        IF "globalPayoutHold" \in b.has THEN b.globalPayoutHold ELSE @]

\* the pattern /^([0-1]?[0-9]|2[0-3]):[0-5][0-9]$/ on startTime and endTime
ValidTime(s) ==
  LET digit(c) == c \in 48..57
  IN \/ /\ Len(s) = 5
        /\ \/ s[1] \in {48, 49} /\ digit(s[2])
           \/ s[1] = 50 /\ s[2] \in 48..51
        /\ s[3] = 58 /\ s[4] \in 48..53 /\ digit(s[5])
     \/ /\ Len(s) = 4
        /\ digit(s[1])
        /\ s[2] = 58 /\ s[3] \in 48..53 /\ digit(s[4])

\* the schema validators and the pre-save hook
SaveAccepts(row) ==
  /\ ValidTime(row.payoutSchedule.startTime)
  /\ ValidTime(row.payoutSchedule.endTime)
  /\ row.minWithdrawalAmount < row.maxWithdrawalAmount
  /\ StrLess(row.payoutSchedule.startTime, row.payoutSchedule.endTime)

\* the body checks and PayoutSettings.findOne
UpdateStart(p, ov, bodies) ==
  /\ CanStart(p, "update", ov)
  /\ \E b \in bodies :
       Set(p, [IdleProc EXCEPT !.h = "update", !.pc = "us_save", !.body = b,
                 !.cfgId = IF settings = <<>> THEN 0 ELSE 1])
  /\ UNCHANGED <<commissions, payouts, settings, agentHold, now, orders>>

\* settings.save(): an insert of the new document, or the modified paths
UpdateSave(p) ==
  /\ proc[p].pc = "us_save"
  /\ LET r == proc[p]
         row == ApplyBody(IF r.cfgId = 0 THEN DefaultSettings ELSE settings[1],
                          SettingsBodies[r.body])
     IN settings' = IF ~SaveAccepts(row) THEN settings
                    ELSE IF r.cfgId = 0 THEN Append(settings, row)
                    ELSE [settings EXCEPT ![1] = row]
  /\ Set(p, IdleProc)
  /\ UNCHANGED <<commissions, payouts, agentHold, now, orders>>

\* setAgentPayoutHold: agent.payoutHold.isHeld takes the body's isHeld
SetAgentHold(p, ov) ==
  /\ CanStart(p, "agent_hold", ov)
  /\ \E a \in Requesters, isHeld \in BOOLEAN :
        agentHold' = [agentHold EXCEPT ![a] = isHeld]
  /\ UNCHANGED <<commissions, payouts, settings, now, orders, proc>>

\* time passes between requests
Tick ==
  /\ \A p \in Procs : Idle(p)
  /\ now + TickHours <= MaxNow
  /\ now' = now + TickHours
  /\ UNCHANGED <<commissions, payouts, settings, agentHold, orders, proc>>

\* the handler returns and its in-memory state is dropped
Respond(p) ==
  /\ proc[p].pc = "respond"
  /\ Set(p, IdleProc)
  /\ UNCHANGED <<commissions, payouts, settings, agentHold, now, orders>>

\* as Respond, and the worker remembers the createCommission call it served
RespondLogged(p) ==
  /\ proc[p].pc = "respond"
  /\ Set(p, [IdleProc EXCEPT !.last =
              IF proc[p].h = "record"
              THEN [order |-> proc[p].order, type |-> proc[p].type,
                    out |-> proc[p].out]
              ELSE @])
  /\ UNCHANGED <<commissions, payouts, settings, agentHold, now, orders>>

StepRecord(p, ov) ==
  \/ RecordStart(p, ov)
  \/ RecordSettings(p)
  \/ RecordMakeSettings(p)
  \/ RecordCreate(p)

StepCreate(p, ov) ==
  \/ CreateStart(p, ov)
  \/ CreatePersist(p)

StepProcess(p, ov) ==
  \/ ProcessStart(p, ov, AdminActions)
  \/ ProcessWrite(p)

StepUpdate(p, ov, bodies) ==
  \/ UpdateStart(p, ov, bodies)
  \/ UpdateSave(p)

(***************************************************************************)
(* bulkProcessPayouts: the admin action applied to a list of requests.     *)
(***************************************************************************)
\* allowedStatuses[action] of the updateMany filter
BulkAllowed(act) ==
  CASE act = "approve" -> {"pending"}
    [] act = "pay"     -> {"pending", "approved"}
    [] act = "hold"    -> {"pending", "approved"}
    [] act = "release" -> {"on_hold"}
    [] OTHER           -> {}

\* the body checks, then either the start of the reject loop or the
\* updateMany of the other actions.  reasonOk is FALSE for a reason of one
\* or two characters; a missing reason is replaced by the generic one.
BulkStart(p, ov) ==
  /\ CanStart(p, "bulk", ov)
  /\ \E S \in (SUBSET (1..Len(payouts))) \ {{}}, act \in AdminActions,
        reasonOk \in BOOLEAN :
       /\ (act # "reject") => reasonOk
       /\ LET base == [IdleProc EXCEPT !.h = "bulk", !.act = act,
                         !.ids = Ascending(S),
                         !.snapC = commissions, !.snapP = payouts]
              hit == {i \in S : payouts[i].status \in BulkAllowed(act)}
          IN IF act = "reject"
             THEN /\ Set(p, IF reasonOk
                            THEN [base EXCEPT !.pc = "b_reject", !.k = 1]
                            ELSE [base EXCEPT !.pc = "respond",
                                              !.ret = "bad_reason"])
                  /\ UNCHANGED payouts
             ELSE /\ payouts' = [i \in 1..Len(payouts) |->
                       IF i \in hit
                       THEN [payouts[i] EXCEPT !.status = StatusAfter(act)]
                       ELSE payouts[i]]
                  /\ Set(p, [base EXCEPT
                       !.count = Cardinality(hit), !.ret = "ok",
                       !.pc = IF act = "pay" /\ hit # {} THEN "b_paid"
                              ELSE "respond"])
  /\ UNCHANGED <<commissions, settings, agentHold, now, orders>>

\* one round of the reject loop: findById, then reject() of a pending
\* request or an entry in errors
BulkReject(p) ==
  /\ proc[p].pc = "b_reject"
  /\ LET r == proc[p]
     IN IF r.k > Len(r.ids)
        THEN /\ Set(p, [r EXCEPT !.pc = "respond", !.ret = "ok"])
             /\ UNCHANGED payouts
        ELSE IF payouts[r.ids[r.k]].status = "pending"
        THEN /\ payouts' = [payouts EXCEPT ![r.ids[r.k]].status = "rejected"]
             /\ Set(p, [r EXCEPT !.k = @ + 1, !.count = @ + 1])
        ELSE /\ Set(p, [r EXCEPT !.k = @ + 1,
                                 !.reported = @ \cup {r.ids[r.k]}])
             /\ UNCHANGED payouts
  /\ UNCHANGED <<commissions, settings, agentHold, now, orders>>

\* PayoutRequest.find({_id: {$in: payoutIds}, status: 'paid'})
BulkFindPaid(p) ==
  /\ proc[p].pc = "b_paid"
  /\ LET r == proc[p]
     IN Set(p, [r EXCEPT !.pc = "b_find", !.j = 1,
                  !.todo = Ascending({i \in 1..Len(payouts) :
                                        /\ \E n \in 1..Len(r.ids) : r.ids[n] = i
                                        /\ payouts[i].status = "paid"})])
  /\ UNCHANGED <<commissions, payouts, settings, agentHold, now, orders>>

RECURSIVE BulkPlan(_, _, _, _, _)
\* for (const commission of commissions) { if (totalPaid + amount <= ...) }
\* an entry that does not fit is skipped and the walk goes on
BulkPlan(docs, i, amount, totalPaid, acc) ==
  IF i > Len(docs) THEN acc
  ELSE IF totalPaid + docs[i].amount <= amount
       THEN IF totalPaid + docs[i].amount >= amount
            THEN Append(acc, docs[i].id)
            ELSE BulkPlan(docs, i + 1, amount, totalPaid + docs[i].amount,
                          Append(acc, docs[i].id))
       ELSE BulkPlan(docs, i + 1, amount, totalPaid, acc)

\* Commission.find of the agent's pending entries for the next paid request
BulkFindCommissions(p) ==
  /\ proc[p].pc = "b_find"
  /\ LET r == proc[p]
     IN IF r.j > Len(r.todo)
        THEN Set(p, [r EXCEPT !.pc = "respond", !.ret = "ok"])
        ELSE LET q == payouts[r.todo[r.j]]
                 docs == PendingDocs(q.agentId)
             IN Set(p, [r EXCEPT !.pc = "b_mark", !.rid = r.todo[r.j],
                          !.agent = q.agentId, !.amount = q.amount,
                          !.docs = docs, !.k = 1,
                          !.paidIds = BulkPlan(docs, 1, q.amount, 0, <<>>)])
  /\ UNCHANGED <<commissions, payouts, settings, agentHold, now, orders>>

\* commission.markAsPaid(payoutRequest._id) of the next fitting entry
BulkMark(p) ==
  /\ proc[p].pc = "b_mark"
  /\ LET r == proc[p]
     IN IF r.k > Len(r.paidIds)
        THEN /\ Set(p, [r EXCEPT !.pc = "b_ids"])
             /\ UNCHANGED commissions
        ELSE /\ commissions' = [commissions EXCEPT ![r.paidIds[r.k]] =
                                  [@ EXCEPT !.status = "paid",
                                            !.payoutRequestId = r.rid]]
             /\ Set(p, [r EXCEPT !.k = @ + 1])
  /\ UNCHANGED <<payouts, settings, agentHold, now, orders>>

\* PayoutRequest.findByIdAndUpdate(id, {commissionIds: paidCommissionIds})
BulkIds(p) ==
  /\ proc[p].pc = "b_ids"
  /\ LET r == proc[p]
     IN /\ payouts' = [payouts EXCEPT ![r.rid].commissionIds = r.paidIds]
        /\ Set(p, [r EXCEPT !.pc = "b_find", !.j = @ + 1])
  /\ UNCHANGED <<commissions, settings, agentHold, now, orders>>

StepBulk(p, ov) ==
  \/ BulkStart(p, ov)
  \/ BulkReject(p)
  \/ BulkFindPaid(p)
  \/ BulkFindCommissions(p)
  \/ BulkMark(p)
  \/ BulkIds(p)

(***************************************************************************)
(* Spec: the handlers run one at a time.                                   *)
(***************************************************************************)
Next ==
  \/ \E p \in Procs :
       \/ StepRecord(p, {})
       \/ StepCreate(p, {})
       \/ StepProcess(p, {})
       \/ StepSettle(p)
       \/ StepUpdate(p, {}, {1})
       \/ CancelOrder(p, {})
       \/ Respond(p)

Spec == Init /\ [][Next]_vars

(***************************************************************************)
(* SpecFail: one handler at a time, and a write of a settlement may fail.  *)
(***************************************************************************)
NextFail ==
  \E p \in Procs :
     \/ StepRecord(p, {})
     \/ StepCreate(p, {})
     \/ StepProcess(p, {})
     \/ StepSettle(p)
     \/ SettleFail(p)
     \/ SettleCatch(p)
     \/ Respond(p)

SpecFail == Init /\ [][NextFail]_vars

(***************************************************************************)
(* SpecIdem: order events and payout requests one at a time, the worker    *)
(* keeping the result of the createCommission call it served last.         *)
(***************************************************************************)
NextIdem ==
  \E p \in Procs :
     \/ StepRecord(p, {})
     \/ StepCreate(p, {})
     \/ StepSettle(p)
     \/ RespondLogged(p)

SpecIdem == Init /\ [][NextIdem]_vars

(***************************************************************************)
(* SpecConcRecord: createCommission calls overlap.                         *)
(***************************************************************************)
NextConcRecord ==
  \E p \in Procs :
     \/ StepRecord(p, {"record"})
     \/ Respond(p)

SpecConcRecord == Init /\ [][NextConcRecord]_vars

(***************************************************************************)
(* SpecConcCreate: createPayoutRequest calls overlap; order events run     *)
(* alone.                                                                  *)
(***************************************************************************)
NextConcCreate ==
  \E p \in Procs :
     \/ StepRecord(p, {})
     \/ StepCreate(p, {"create"})
     \/ StepSettle(p)
     \/ Respond(p)

SpecConcCreate == Init /\ [][NextConcCreate]_vars

(***************************************************************************)
(* SpecConcPay: admin pays overlap; order events and payout creations run  *)
(* alone.                                                                  *)
(***************************************************************************)
NextConcPay ==
  \E p \in Procs :
     \/ StepRecord(p, {})
     \/ StepCreate(p, {})
     \/ ProcessStart(p, {"process"}, {"pay"})
     \/ StepSettle(p)
     \/ Respond(p)

SpecConcPay == Init /\ [][NextConcPay]_vars

(***************************************************************************)
(* SpecConcProcess: admin pays and rejects overlap; order events and       *)
(* payout creations run alone.                                             *)
(***************************************************************************)
NextConcProcess ==
  \E p \in Procs :
     \/ StepRecord(p, {})
     \/ StepCreate(p, {})
     \/ ProcessStart(p, {"process"}, {"pay", "reject"})
     \/ ProcessWrite(p)
     \/ StepSettle(p)
     \/ Respond(p)

SpecConcProcess == Init /\ [][NextConcProcess]_vars

(***************************************************************************)
(* SpecBulk: one handler at a time, with the bulk operation next to the    *)
(* single-request operation.                                               *)
(***************************************************************************)
NextBulk ==
  \E p \in Procs :
     \/ StepRecord(p, {})
     \/ StepCreate(p, {})
     \/ StepProcess(p, {})
     \/ StepBulk(p, {})
     \/ StepSettle(p)
     \/ Respond(p)

SpecBulk == Init /\ [][NextBulk]_vars

(***************************************************************************)
(* SpecConcCancel: a payout creation with its auto-payment, or an admin    *)
(* pay, overlaps the cancellation of an order; order events run alone.     *)
(***************************************************************************)
NextConcCancel ==
  \E p \in Procs :
     \/ StepRecord(p, {})
     \/ StepCreate(p, {"create", "cancel"})
     \/ ProcessStart(p, {"process", "cancel"}, {"pay"})
     \/ StepSettle(p)
     \/ CancelOrder(p, {"create", "process", "cancel"})
     \/ Respond(p)

SpecConcCancel == Init /\ [][NextConcCancel]_vars

(***************************************************************************)
(* SpecAutoPay: one payout creation at a time, with its auto-payment,      *)
(* overlaps order cancellations; no admin action runs.                     *)
(***************************************************************************)
NextAutoPay ==
  \E p \in Procs :
     \/ StepRecord(p, {})
     \/ StepCreate(p, {})
     \/ StepSettle(p)
     \/ CancelOrder(p, {"create", "cancel"})
     \/ Respond(p)

SpecAutoPay == Init /\ [][NextAutoPay]_vars

\* the payout policy changes between requests: settings updates, the
\* per-agent hold, and the clock
NextPolicy ==
  \/ \E p \in Procs :
        \/ StepRecord(p, {})
        \/ StepCreate(p, {})
        \/ StepSettle(p)
        \/ StepUpdate(p, {}, {1, 2})
        \/ SetAgentHold(p, {})
        \/ Respond(p)
  \/ Tick

SpecPolicy == Init /\ [][NextPolicy]_vars

\* one agent keeps asking within a day; an admin rejects what is outstanding
NextLimits ==
  \E p \in Procs :
     \/ StepRecord(p, {})
     \/ CreateStart(p, {})
     \/ CreatePersistUpTo(p, MaxDailyCreates)
     \/ StepSettle(p)
     \/ StepUpdate(p, {}, {1})
     \/ ProcessStart(p, {}, {"reject"})
     \/ ProcessWrite(p)
     \/ Respond(p)

SpecLimits == Init /\ [][NextLimits]_vars

(***************************************************************************)
(* Commission.calculateCommission called on its own, for every configured  *)
(* rate.  Rates are held in percent; on the inputs below the product       *)
(* orderTotal * rate is the same in double arithmetic and in exact         *)
(* arithmetic.                                                             *)
(***************************************************************************)
DeliveryAmounts == {0, 200}
AgentOrderPercents == {0, 3, 50, 100}
OrderTotals == {0, 50, 3333, 10000}
DeliveryCounts == {1, 2, 3}

ConfiguredSettings ==
  { [DefaultSettings EXCEPT !.deliveryAmount = d, !.agentOrderPercent = r] :
      d \in DeliveryAmounts, r \in AgentOrderPercents }

InitCalc ==
  /\ commissions = <<>>
  /\ payouts = <<>>
  /\ settings \in {<<>>} \cup { <<cfg>> : cfg \in ConfiguredSettings }
  /\ agentHold = [a \in Agents |-> FALSE]
  /\ now = 0
  /\ orders = [o \in Orders |-> "none"]
  /\ proc = [p \in Procs |-> IdleProc]

\* getCurrentSettings creates the default row when there is none; the result
\* is what the caller receives
Calculate(p) ==
  /\ CanStart(p, "calculate", {"calculate"})
  /\ \E orderTotal \in OrderTotals, type \in {"delivery", "agent_order"},
        deliveryCount \in DeliveryCounts :
       LET row == IF settings = <<>> THEN DefaultSettings ELSE settings[1]
       IN /\ settings' = IF settings = <<>> THEN <<DefaultSettings>> ELSE settings
          /\ Set(p, [IdleProc EXCEPT !.h = "calculate", !.pc = "respond",
                       !.amount = orderTotal, !.type = type,
                       !.k = deliveryCount, !.cfg = row,
                       !.out = calculateCommission(orderTotal, type,
                                                   deliveryCount, row)])
  /\ UNCHANGED <<commissions, payouts, agentHold, now, orders>>

NextCalc == \E p \in Procs : Calculate(p) \/ Respond(p)

SpecCalc == InitCalc /\ [][NextCalc]_vars

(***************************************************************************)
(* The payout window: PayoutSettings.arePayoutsAllowed and the two         *)
(* window-status handlers.                                                 *)
(***************************************************************************)
arePayoutsAllowed(cfg, t) ==
  IF cfg.globalPayoutHold THEN FALSE
  ELSE IF ~cfg.payoutSchedule.enabled THEN TRUE
  ELSE WithinWindow(cfg.payoutSchedule, t)

\* isPayoutWindowOpen of the settings controller's checkPayoutWindow
isPayoutWindowOpen(rows, t) ==
  IF rows = <<>> \/ ~rows[1].payoutSchedule.enabled THEN TRUE
  ELSE WithinWindow(rows[1].payoutSchedule, t) /\ ~rows[1].globalPayoutHold

\* checkPayoutWindow of the settings controller
CheckWindow(p, ov) ==
  /\ CanStart(p, "window", ov)
  /\ Set(p, [IdleProc EXCEPT !.h = "window", !.pc = "respond",
               !.ret = IF isPayoutWindowOpen(settings, now) THEN "open"
                       ELSE "closed",
               !.next = IF isPayoutWindowOpen(settings, now) THEN -1
                        ELSE NextWindowByText(settings[1].payoutSchedule, now)])
  /\ UNCHANGED <<commissions, payouts, settings, agentHold, now, orders>>

\* checkPayoutWindow built on getCurrentSettings and arePayoutsAllowed
WindowStatus(p, ov) ==
  /\ CanStart(p, "status", ov)
  /\ LET row == IF settings = <<>> THEN DefaultSettings ELSE settings[1]
     IN /\ settings' = IF settings = <<>> THEN <<DefaultSettings>> ELSE settings
        /\ Set(p, [IdleProc EXCEPT !.h = "status", !.pc = "respond",
                     !.ret = IF arePayoutsAllowed(row, now) THEN "open"
                             ELSE "closed",
                     !.next = IF /\ ~arePayoutsAllowed(row, now)
                                 /\ row.payoutSchedule.enabled
                                 /\ ~row.globalPayoutHold
                              THEN NextWindowByMinutes(row.payoutSchedule, now)
                              ELSE -1])
  /\ UNCHANGED <<commissions, payouts, agentHold, now, orders>>

NextWindow ==
  \/ \E p \in Procs :
        \/ StepRecord(p, {})
        \/ StepCreate(p, {})
        \/ StepSettle(p)
        \/ StepUpdate(p, {}, {2, 3, 4, 5})
        \/ CheckWindow(p, {})
        \/ WindowStatus(p, {})
        \/ Respond(p)
  \/ Tick

SpecWindow == Init /\ [][NextWindow]_vars

(***************************************************************************)
(* Reading and changing the settings row: getPayoutSettings /              *)
(* getCurrentSettings, setGlobalPayoutHold and updateAutoApprovalSettings  *)
(* of the payout settings controller, updatePayoutSettings and             *)
(* setGlobalPayoutHold of the admin settings controller.                   *)
(***************************************************************************)
\* the history after one more push on the document loaded as row cfgId
HistoryAfter(rows, cfgId) ==
  IF cfgId = 0 \/ rows = <<>> THEN <<"first">>
  ELSE Append(rows[1].modificationHistory, "next")

\* PayoutSettings.findOne() of a first read
ReadStart(p, ov) ==
  /\ CanStart(p, "read", ov)
  /\ Set(p, [IdleProc EXCEPT !.h = "read",
               !.pc = IF settings = <<>> THEN "rd_create" ELSE "respond",
               !.ret = "ok"])
  /\ UNCHANGED <<commissions, payouts, settings, agentHold, now, orders>>

\* PayoutSettings.create({...defaults}) when the read found no row
ReadCreate(p) ==
  /\ proc[p].pc = "rd_create"
  /\ settings' = Append(settings, DefaultSettings)
  /\ Set(p, [proc[p] EXCEPT !.pc = "respond"])
  /\ UNCHANGED <<commissions, payouts, agentHold, now, orders>>

\* setGlobalPayoutHold of the payout settings controller: findOne
HoldStart(p, ov) ==
  /\ CanStart(p, "hold", ov)
  /\ \E isHeld \in BOOLEAN :
       Set(p, [IdleProc EXCEPT !.h = "hold", !.pc = "gh_save", !.flag = isHeld,
                 !.cfgId = IF settings = <<>> THEN 0 ELSE 1])
  /\ UNCHANGED <<commissions, payouts, settings, agentHold, now, orders>>

\* settings.save() of a new document or of the modified path
HoldSave(p) ==
  /\ proc[p].pc = "gh_save"
  /\ LET r == proc[p]
     IN settings' =
          IF r.cfgId = 0
          THEN Append(settings, [DefaultSettings EXCEPT !.globalPayoutHold = r.flag])
          ELSE [settings EXCEPT ![1].globalPayoutHold = r.flag]
  /\ Set(p, [proc[p] EXCEPT !.pc = "respond", !.ret = "ok"])
  /\ UNCHANGED <<commissions, payouts, agentHold, now, orders>>

\* updateAutoApprovalSettings: findOne, 404 when there is no row
AutoApprovalStart(p, ov) ==
  /\ CanStart(p, "auto_approval", ov)
  /\ \E requireManagerApproval \in BOOLEAN :
       Set(p, [IdleProc EXCEPT !.h = "auto_approval", !.flag = requireManagerApproval,
                 !.pc = IF settings = <<>> THEN "respond" ELSE "aa_save",
                 !.ret = IF settings = <<>> THEN "not_found" ELSE "none",
                 !.cfgId = IF settings = <<>> THEN 0 ELSE 1])
  /\ UNCHANGED <<commissions, payouts, settings, agentHold, now, orders>>

\* modificationHistory.push and settings.save()
AutoApprovalSave(p) ==
  /\ proc[p].pc = "aa_save"
  /\ Len(HistoryAfter(settings, proc[p].cfgId)) <= MaxHistory
  /\ settings' = [settings EXCEPT
                    ![1].requireManagerApproval = proc[p].flag,
                    ![1].modificationHistory = Append(@, "Auto-approval settings update")]
  /\ Set(p, [proc[p] EXCEPT !.pc = "respond", !.ret = "ok"])
  /\ UNCHANGED <<commissions, payouts, agentHold, now, orders>>

\* updatePayoutSettings of the admin settings controller: findOne
AdminUpdateStart(p, ov, bodies) ==
  /\ CanStart(p, "admin_update", ov)
  /\ \E b \in bodies :
       Set(p, [IdleProc EXCEPT !.h = "admin_update", !.pc = "au_save", !.body = b,
                 !.cfgId = IF settings = <<>> THEN 0 ELSE 1])
  /\ UNCHANGED <<commissions, payouts, settings, agentHold, now, orders>>

\* PayoutSettings.create(updateData) when there was no row, otherwise
\* Object.assign, modificationHistory.push and settings.save()
AdminUpdateSave(p) ==
  /\ proc[p].pc = "au_save"
  /\ Len(HistoryAfter(settings, proc[p].cfgId)) <= MaxHistory
  /\ LET r == proc[p]
         row == ApplyBody(IF r.cfgId = 0 THEN DefaultSettings ELSE settings[1],
                          SettingsBodies[r.body])
     IN IF ~SaveAccepts(row)
        THEN /\ UNCHANGED settings
             /\ Set(p, [r EXCEPT !.pc = "respond", !.ret = "error"])
        ELSE /\ settings' =
                  IF r.cfgId = 0 THEN Append(settings, row)
                  ELSE [settings EXCEPT ![1] =
                          [row EXCEPT !.modificationHistory =
                                         Append(@, "Settings update")]]
             /\ Set(p, [r EXCEPT !.pc = "respond", !.ret = "ok"])
  /\ UNCHANGED <<commissions, payouts, agentHold, now, orders>>

\* setGlobalPayoutHold of the admin settings controller: findOne
AdminHoldStart(p, ov) ==
  /\ CanStart(p, "admin_hold", ov)
  /\ \E isHeld \in BOOLEAN :
       Set(p, [IdleProc EXCEPT !.h = "admin_hold", !.pc = "ah_save", !.flag = isHeld,
                 !.cfgId = IF settings = <<>> THEN 0 ELSE 1])
  /\ UNCHANGED <<commissions, payouts, settings, agentHold, now, orders>>

\* create with a first history record, or push and save
AdminHoldSave(p) ==
  /\ proc[p].pc = "ah_save"
  /\ Len(HistoryAfter(settings, proc[p].cfgId)) <= MaxHistory
  /\ LET r == proc[p]
     IN settings' =
          IF r.cfgId = 0
          THEN Append(settings,
                      [DefaultSettings EXCEPT
                         !.globalPayoutHold = r.flag,
                         !.modificationHistory = <<"Global payout hold">>])
          ELSE [settings EXCEPT
                  ![1].globalPayoutHold = r.flag,
                  ![1].modificationHistory = Append(@, "Global payout hold")]
  /\ Set(p, [proc[p] EXCEPT !.pc = "respond", !.ret = "ok"])
  /\ UNCHANGED <<commissions, payouts, agentHold, now, orders>>

StepRead(p, ov) ==
  \/ ReadStart(p, ov)
  \/ ReadCreate(p)

StepHold(p, ov) ==
  \/ HoldStart(p, ov)
  \/ HoldSave(p)

\* first reads and admin updates of the policy arrive together
PolicyHandlers == {"read", "update", "hold"}

NextConcSettings ==
  \E p \in Procs :
     \/ StepRead(p, PolicyHandlers)
     \/ StepUpdate(p, PolicyHandlers, {1, 3})
     \/ StepHold(p, PolicyHandlers)
     \/ Respond(p)

SpecConcSettings == Init /\ [][NextConcSettings]_vars

StepAutoApproval(p, ov) ==
  \/ AutoApprovalStart(p, ov)
  \/ AutoApprovalSave(p)

StepAdminUpdate(p, ov, bodies) ==
  \/ AdminUpdateStart(p, ov, bodies)
  \/ AdminUpdateSave(p)

StepAdminHold(p, ov) ==
  \/ AdminHoldStart(p, ov)
  \/ AdminHoldSave(p)

\* the admin changes the policy through either controller, one request at
\* a time
NextHistory ==
  \E p \in Procs :
     \/ StepRead(p, {})
     \/ StepUpdate(p, {}, {1, 3})
     \/ StepHold(p, {})
     \/ StepAutoApproval(p, {})
     \/ StepAdminUpdate(p, {}, {1, 3, 5})
     \/ StepAdminHold(p, {})
     \/ Respond(p)

SpecHistory == Init /\ [][NextHistory]_vars

(***************************************************************************)
(* The order events: createOrder by an agent, updateOrderStatus of the     *)
(* order controller, updateOrderStatus of the admin controller.            *)
(***************************************************************************)
OrderStatuses == {"delivered", "cancelled"}

\* Order.create; an agent's order goes on to createAgentOrderCommission
PlaceOrder(p, ov) ==
  /\ CanStart(p, "order_create", ov)
  /\ \E o \in Orders :
       /\ orders[o] = "none"
       /\ orders' = [orders EXCEPT ![o] = "pending"]
       /\ Set(p, [IdleProc EXCEPT !.h = "order_create", !.order = o,
                    !.agent = OrderAgent(o), !.type = "agent_order",
                    !.st = "pending", !.ret = "ok",
                    !.pc = IF <<o, "agent_order">> \in Triggers
                           THEN "oe_find" ELSE "respond"])
  /\ UNCHANGED <<commissions, payouts, settings, agentHold, now>>

\* updateOrderStatus of the order controller: Order.findById and the switch
\* on the requested status, up to the commission call
StatusStart(p, ov) ==
  /\ CanStart(p, "order_status", ov)
  /\ \E o \in Orders, status \in OrderStatuses :
       /\ orders[o] # "none"
       /\ Set(p, [IdleProc EXCEPT !.h = "order_status", !.order = o,
                    !.agent = OrderAgent(o), !.type = "delivery",
                    !.st = status,
                    !.pc = IF status = "cancelled" THEN "oe_cancel"
                           ELSE IF <<o, "delivery">> \in Triggers
                           THEN "oe_find" ELSE "oe_save"])
  /\ UNCHANGED <<commissions, payouts, settings, agentHold, now, orders>>

\* createCommission called from the order handler: Commission.findOne
OrderFind(p) ==
  /\ proc[p].pc = "oe_find"
  /\ LET r == proc[p]
         found == findOneCommission(r.order, r.agent, r.type)
     IN IF found # 0
        THEN Set(p, [r EXCEPT !.pc = AfterRecord(r), !.out = found])
        ELSE Set(p, [r EXCEPT !.pc = "rc_settings"])
  /\ UNCHANGED <<commissions, payouts, settings, agentHold, now, orders>>

\* cancelCommissionsForOrder called from the order handler
OrderCancel(p) ==
  /\ proc[p].pc = "oe_cancel"
  /\ commissions' =
       [i \in 1..Len(commissions) |->
          IF CancelMatches(commissions[i], proc[p].order)
          THEN [commissions[i] EXCEPT !.status = "cancelled"]
          ELSE commissions[i]]
  /\ Set(p, [proc[p] EXCEPT !.pc = "oe_save"])
  /\ UNCHANGED <<payouts, settings, agentHold, now, orders>>

AfterCommissionError_Rethrow(r) ==
  [r EXCEPT !.failed = TRUE, !.pc = "respond", !.ret = "error"]

\* the catch around the commission call logs the error and goes on
AfterCommissionError(r) ==
  [r EXCEPT !.failed = TRUE, !.pc = AfterRecord(r)]

\* the commission call throws at any of its database operations
OrderCommissionFails(p) ==
  /\ proc[p].h \in {"order_create", "order_status"}
  /\ proc[p].pc \in {"oe_find", "oe_cancel", "rc_settings", "rc_mksettings",
                      "rc_create"}
  /\ Set(p, AfterCommissionError(proc[p]))
  /\ UNCHANGED <<commissions, payouts, settings, agentHold, now, orders>>

\* order.save() with the requested status
OrderSave(p) ==
  /\ proc[p].pc = "oe_save"
  /\ orders' = [orders EXCEPT ![proc[p].order] = proc[p].st]
  /\ Set(p, [proc[p] EXCEPT !.pc = "respond", !.ret = "ok"])
  /\ UNCHANGED <<commissions, payouts, settings, agentHold, now>>

\* updateOrderStatus of the admin controller: findById, order.save()
AdminStatus(p, ov) ==
  /\ CanStart(p, "admin_status", ov)
  /\ \E o \in Orders, status \in OrderStatuses :
       /\ orders[o] # "none"
       /\ orders' = [orders EXCEPT ![o] = status]
       /\ Set(p, [IdleProc EXCEPT !.h = "admin_status", !.order = o,
                    !.st = status, !.pc = "respond", !.ret = "ok"])
  /\ UNCHANGED <<commissions, payouts, settings, agentHold, now>>

StepOrder(p, ov) ==
  \/ PlaceOrder(p, ov)
  \/ StatusStart(p, ov)
  \/ OrderFind(p)
  \/ RecordSettings(p)
  \/ RecordMakeSettings(p)
  \/ RecordCreate(p)
  \/ OrderCancel(p)
  \/ OrderSave(p)

\* order events one at a time; the commission bookkeeping may fail
NextOrders ==
  \E p \in Procs :
     \/ StepOrder(p, {})
     \/ OrderCommissionFails(p)
     \/ Respond(p)

SpecOrders == Init /\ [][NextOrders]_vars

\* order events one at a time, by the order route and by the admin
\* dashboard route; no commission call fails
NextOrdersAdmin ==
  \E p \in Procs :
     \/ StepOrder(p, {})
     \/ AdminStatus(p, {})
     \/ Respond(p)

SpecOrdersAdmin == Init /\ [][NextOrdersAdmin]_vars

(***************************************************************************)
(* Properties under concurrency.                                           *)
(***************************************************************************)
RECURSIVE SumWhere(_, _, _)
\* the sum of the amounts of the documents of coll whose position is in S
SumWhere(coll, S, i) ==
  IF i > Len(coll) THEN 0
  ELSE (IF i \in S THEN coll[i].amount ELSE 0) + SumWhere(coll, S, i + 1)

PaidRequestTotal(a) ==
  SumWhere(payouts, {i \in 1..Len(payouts) :
                       payouts[i].agentId = a /\ payouts[i].status = "paid"}, 1)

PaidCommissionTotal(a) ==
  SumWhere(commissions, {i \in 1..Len(commissions) :
                           commissions[i].agentId = a
                           /\ commissions[i].status = "paid"}, 1)

\* C1: no overdraft: the total amount of an agent's payout requests that
\* reached paid never exceeds the total amount of the agent's commission
\* entries that were moved from pending to paid.
C1_NoOverdraft ==
  \A a \in Agents : PaidRequestTotal(a) <= PaidCommissionTotal(a)

(***************************************************************************)
(* Properties of the settlement, stated on the snapshot a handler took     *)
(* of the collections when it began.                                       *)
(***************************************************************************)
PendingIdsIn(coll, a) ==
  Ascending({i \in 1..Len(coll) : coll[i].agentId = a /\ coll[i].status = "pending"})

RECURSIVE SumTo(_, _, _)
\* the sum of the first k amounts of the entries ids of coll
SumTo(coll, ids, k) ==
  IF k = 0 THEN 0 ELSE coll[ids[k]].amount + SumTo(coll, ids, k - 1)

BalanceIn(coll, a) ==
  LET ids == PendingIdsIn(coll, a) IN SumTo(coll, ids, Len(ids))

PayInFlight(p) ==
  /\ proc[p].h = "process" /\ proc[p].act = "pay"
  /\ proc[p].st \in {"pending", "approved"}

\* C2: an admin pay on a request whose amount exceeds the agent's pending
\* balance ends with the insufficient-balance error, and at no point of the
\* handler does a commission entry or a payout request differ from what it
\* was when the pay began.
C2_InsufficientPayChangesNothing ==
  \A p \in Procs :
     (PayInFlight(p) /\ proc[p].amount > BalanceIn(proc[p].snapC, proc[p].agent))
       => /\ commissions = proc[p].snapC
          /\ payouts = proc[p].snapP
          /\ proc[p].pc = "respond" => proc[p].ret = "insufficient"

C2_Witness ==
  \E p \in Procs :
     /\ PayInFlight(p) /\ proc[p].pc = "respond"
     /\ proc[p].ret = "insufficient"
     /\ BalanceIn(proc[p].snapC, proc[p].agent) > 0
     /\ proc[p].amount > BalanceIn(proc[p].snapC, proc[p].agent)

\* the handler p has just settled its request
Settled(p) ==
  /\ proc[p].pc = "respond" /\ proc[p].ret = "ok"
  /\ \/ proc[p].h = "process" /\ proc[p].act = "pay"
     \/ proc[p].h = "create" /\ proc[p].auto
  /\ payouts[proc[p].rid].status = "paid"

\* the ledger and the request after a settlement that pays the first K
\* pending entries whole and, when split, splits entry K + 1
FifoOutcome(p, K, split) ==
  LET r == proc[p]
      ids == PendingIdsIn(r.snapC, r.agent)
      slice == r.amount - SumTo(r.snapC, ids, K)
      expected == [i \in 1..Len(r.snapC) |->
         IF \E j \in 1..K : ids[j] = i
         THEN [r.snapC[i] EXCEPT !.status = "paid", !.payoutRequestId = r.rid]
         ELSE IF split /\ i = ids[K + 1]
         THEN [r.snapC[i] EXCEPT !.status = "paid", !.payoutRequestId = r.rid,
                                 !.amount = slice,
                                 !.description = Append(@, SplitPaid(r.h))]
         ELSE r.snapC[i]]
  IN /\ Len(commissions) = Len(expected) + (IF split THEN 1 ELSE 0)
     /\ \A i \in 1..Len(expected) : commissions[i] = expected[i]
     /\ split =>
          LET rem == commissions[Len(commissions)]
              orig == r.snapC[ids[K + 1]]
          IN /\ rem.status = "pending" /\ rem.payoutRequestId = 0
             /\ rem.orderId = orig.orderId /\ rem.agentId = orig.agentId
             /\ rem.type = orig.type
             /\ rem.amount = orig.amount - slice
             /\ rem.description = Append(orig.description, SplitRemaining(r.h))
     /\ payouts[r.rid].commissionIds =
          [j \in 1..(IF split THEN K + 1 ELSE K) |-> ids[j]]
     /\ r.amount - r.remaining = r.amount
     /\ split => slice > 0 /\ r.snapC[ids[K + 1]].amount > slice

\* the longest prefix of the pending entries whose amounts fit in the amount
LongestFit(p) ==
  LET r == proc[p]
      ids == PendingIdsIn(r.snapC, r.agent)
  IN CHOOSE k \in 0..Len(ids) :
       /\ SumTo(r.snapC, ids, k) <= r.amount
       /\ \A m \in (k + 1)..Len(ids) : SumTo(r.snapC, ids, m) > r.amount

\* the shortest prefix whose amounts reach the amount exactly, when there is
\* one, else the longest prefix whose amounts stay below it
FirstFit(p) ==
  LET r == proc[p]
      ids == PendingIdsIn(r.snapC, r.agent)
      exact == {k \in 0..Len(ids) : SumTo(r.snapC, ids, k) = r.amount}
  IN IF exact # {}
     THEN CHOOSE k \in exact : \A m \in exact : k <= m
     ELSE CHOOSE k \in 0..Len(ids) :
            /\ SumTo(r.snapC, ids, k) < r.amount
            /\ \A m \in (k + 1)..Len(ids) : SumTo(r.snapC, ids, m) > r.amount

PaysExactly(p, K) ==
  LET r == proc[p]
      ids == PendingIdsIn(r.snapC, r.agent)
  IN FifoOutcome(p, K, SumTo(r.snapC, ids, K) < r.amount)

\* C3 as stated: a settlement pays whole the longest prefix of the pending
\* entries (oldest first) whose amounts fit in the amount, splits the next
\* entry when the prefix sum is below the amount, leaves the later entries
\* untouched and records the paid ids in creation order.
C3_LongestPrefixPaid ==
  \A p \in Procs : Settled(p) => PaysExactly(p, LongestFit(p))

\* C3 amended: the walk stops as soon as the amount is reached, so the paid
\* prefix is the shortest one whose amounts reach the amount exactly (entries
\* of amount 0 that follow an exact fit stay pending); when no prefix sums to
\* the amount, the longest prefix below it is paid whole and the next entry
\* is split into a paid slice and a pending remainder.
C3_FirstFitPaid ==
  \A p \in Procs : Settled(p) => PaysExactly(p, FirstFit(p))

\* a settlement with an entry paid whole, a split, and an entry left alone
C3_Witness ==
  \E p \in Procs :
     /\ Settled(p)
     /\ LET ids == PendingIdsIn(proc[p].snapC, proc[p].agent)
            K == FirstFit(p)
        IN /\ K >= 1 /\ Len(ids) >= K + 2
           /\ SumTo(proc[p].snapC, ids, K) < proc[p].amount
           /\ SumTo(proc[p].snapC, ids, K) > 0

\* the handler p is settling (admin pay, or the auto-payment of a create)
Settling(p) ==
  /\ proc[p].pc \in {"find", "split", "save", "paid", "catch", "respond"}
  /\ \/ proc[p].h = "process" /\ proc[p].act = "pay"
     \/ proc[p].h = "create" /\ proc[p].auto

LedgerTotal(coll, a) ==
  SumWhere(coll, {i \in 1..Len(coll) :
                    coll[i].agentId = a /\ coll[i].status \in {"paid", "pending"}}, 1)

\* C4: conservation: in every persisted state during and after a settlement
\* the amounts of the agent's paid and pending entries sum to what they
\* summed to when the settlement began.
C4_Conservation ==
  \A p \in Procs :
     Settling(p) => LedgerTotal(commissions, proc[p].agent)
                      = LedgerTotal(proc[p].snapC, proc[p].agent)

\* C5: a settlement of which a write failed leaves every commission entry
\* and every payout request as it was before the pay was attempted.
C5_FailedPayKeepsNothing ==
  \A p \in Procs :
     (Settling(p) /\ proc[p].failed /\ proc[p].pc = "respond")
       => commissions = proc[p].snapC /\ payouts = proc[p].snapP

\* the createCommission call p returns from directly follows a call with
\* the same (orderId, agentId, type)
SecondCall(p) ==
  /\ proc[p].h = "record" /\ proc[p].pc = "respond"
  /\ proc[p].before.order = proc[p].order
  /\ proc[p].before.type = proc[p].type

\* the entry was created by a split, as the pending remainder
IsRemainder(c) ==
  \E k \in 1..Len(c.description) :
     c.description[k] \in {SplitRemaining("create"), SplitRemaining("process")}

EntriesOf(o, a, t) ==
  {i \in 1..Len(commissions) :
     commissions[i].orderId = o /\ commissions[i].agentId = a
     /\ commissions[i].type = t}

\* C6 as stated: the second of two createCommission calls in sequence with
\* the same triple returns the id the first returned, changes no entry, and
\* exactly one entry exists for the triple.
C6_IdempotentSingleEntry ==
  \A p \in Procs :
     SecondCall(p)
       => /\ proc[p].out = proc[p].before.out
          /\ commissions = proc[p].snapC
          /\ Cardinality(EntriesOf(proc[p].order, proc[p].agent, proc[p].type)) = 1

\* C6 amended: the second call returns the id the first returned, changes
\* no entry and creates none; the triple has exactly one entry that is not
\* the pending remainder of a split (a settlement that split the entry adds
\* a remainder with the same triple).
C6_IdempotentNoNewEntry ==
  \A p \in Procs :
     SecondCall(p)
       => /\ proc[p].out = proc[p].before.out
          /\ commissions = proc[p].snapC
          /\ Cardinality({i \in EntriesOf(proc[p].order, proc[p].agent, proc[p].type) :
                            ~ IsRemainder(commissions[i])}) = 1

\* a second call that finds the entry of the triple after a settlement
\* split that entry: the entry is paid and its remainder is pending
C6_Witness ==
  \E p \in Procs :
     /\ SecondCall(p)
     /\ proc[p].out # 0
     /\ commissions[proc[p].out].status = "paid"
     /\ \E i \in EntriesOf(proc[p].order, proc[p].agent, proc[p].type) :
           IsRemainder(commissions[i]) /\ commissions[i].status = "pending"

\* C7: at most one commission entry is created for a triple by
\* createCommission, whatever the interleaving of the calls.
C7_OneEntryPerTriple ==
  \A tr \in Triggers :
     Cardinality({i \in EntriesOf(tr[1], OrderAgent(tr[1]), tr[2]) :
                    ~ IsRemainder(commissions[i])}) <= 1

OutstandingOf(a) ==
  {i \in 1..Len(payouts) : payouts[i].agentId = a /\ payouts[i].status \in Outstanding}

\* C8: with the operations executed one at a time, an agent never has more
\* than one payout request that is pending, approved or on hold.
C8_AtMostOneOutstanding ==
  \A a \in Agents : Cardinality(OutstandingOf(a)) <= 1

\* C9: of two overlapping creates for the same agent that both passed the
\* validation against the settings, at most one has its request persisted
\* in pending, approved or on hold.
C9_ConcurrentCreatesExclusive ==
  \A p, q \in Procs :
     ( /\ p # q
       /\ proc[p].h = "create" /\ proc[q].h = "create"
       /\ proc[p].validated /\ proc[q].validated
       /\ proc[p].agent = proc[q].agent
       /\ proc[p].rid # 0 /\ proc[q].rid # 0 )
       => ~ ( /\ payouts[proc[p].rid].status \in Outstanding
              /\ payouts[proc[q].rid].status \in Outstanding )

\* the statuses the workflow lets an admin action start from
AllowedFrom(act) ==
  CASE act = "approve" -> {"pending"}
    [] act = "pay"     -> {"pending", "approved"}
    [] act = "reject"  -> {"pending", "approved"}
    [] act = "hold"    -> {"pending", "approved"}
    [] act = "release" -> {"on_hold"}

\* C10: an admin action attempted from a status outside the workflow's
\* transition relation is refused and leaves the status unchanged.
C10_TransitionsFollowWorkflow ==
  \A p \in Procs :
     ( /\ proc[p].h = "process" /\ proc[p].pc = "respond"
       /\ proc[p].st \notin AllowedFrom(proc[p].act) )
       => /\ proc[p].ret # "ok"
          /\ payouts[proc[p].rid].status = proc[p].st

(***************************************************************************)
(* Properties of the bulk operation and of the paid status.                *)
(***************************************************************************)
Terminal == {"paid", "rejected"}

\* the bulk answer tells the caller that request i was not processed
BulkRefused(p, i) == proc[p].ret # "ok" \/ i \in proc[p].reported

\* C11: an admin action attempted on a request that is paid or rejected,
\* through the single-request operation or through the bulk operation, is
\* reported to the caller as an error and leaves the request and the
\* ledger unchanged.
C11_TerminalActionRefused ==
  \A p \in Procs :
     proc[p].pc = "respond" =>
       /\ (proc[p].h = "process" /\ proc[p].st \in Terminal)
            => /\ proc[p].ret # "ok"
               /\ payouts = proc[p].snapP
               /\ commissions = proc[p].snapC
       /\ proc[p].h = "bulk"
            => /\ \A n \in 1..Len(proc[p].ids) :
                    proc[p].snapP[proc[p].ids[n]].status \in Terminal
                      => /\ BulkRefused(p, proc[p].ids[n])
                         /\ payouts[proc[p].ids[n]] = proc[p].snapP[proc[p].ids[n]]
               /\ (\A n \in 1..Len(proc[p].ids) :
                      proc[p].snapP[proc[p].ids[n]].status \in Terminal)
                    => commissions = proc[p].snapC

RECURSIVE SumOfIds(_, _)
\* the sum of the amounts of the commission entries named by ids
SumOfIds(coll, ids) ==
  IF ids = <<>> THEN 0 ELSE coll[Head(ids)].amount + SumOfIds(coll, Tail(ids))

\* the entries named by request i are paid, carry its id and fund its amount
FundedBy(i) ==
  /\ \A n \in 1..Len(payouts[i].commissionIds) :
        /\ commissions[payouts[i].commissionIds[n]].status = "paid"
        /\ commissions[payouts[i].commissionIds[n]].payoutRequestId = i
  /\ SumOfIds(commissions, payouts[i].commissionIds) = payouts[i].amount

\* C12: a payout request has status paid only if its commissionIds name
\* entries that are paid, stamped with its id, and whose amounts sum to
\* the request's amount.
C12_PaidIsFunded ==
  \A i \in 1..Len(payouts) : payouts[i].status = "paid" => FundedBy(i)

(***************************************************************************)
(* Properties of cancelCommissionsForOrder.                                *)
(***************************************************************************)
\* the cancellation p returns from
Cancelled(p) == proc[p].h = "cancel" /\ proc[p].pc = "respond"

\* C13: cancelling the commissions of an order changes to cancelled
\* exactly the entries of that order that were pending and leaves every
\* other entry, and every payout request, unchanged.
C13_CancelOnlyPendingOfOrder ==
  \A p \in Procs :
     Cancelled(p) =>
       /\ Len(commissions) = Len(proc[p].snapC)
       /\ \A i \in 1..Len(commissions) :
            IF /\ proc[p].snapC[i].orderId = proc[p].order
               /\ proc[p].snapC[i].status = "pending"
            THEN commissions[i] = [proc[p].snapC[i] EXCEPT !.status = "cancelled"]
            ELSE commissions[i] = proc[p].snapC[i]
       /\ payouts = proc[p].snapP

\* an order with a paid entry and a pending entry is cancelled, while an
\* entry of another order is pending
C13_Witness ==
  \E p \in Procs :
     /\ Cancelled(p)
     /\ \E i, j, k \in 1..Len(commissions) :
          /\ proc[p].snapC[i].orderId = proc[p].order
          /\ proc[p].snapC[i].status = "paid"
          /\ proc[p].snapC[j].orderId = proc[p].order
          /\ proc[p].snapC[j].status = "pending"
          /\ commissions[j].status = "cancelled"
          /\ proc[p].snapC[k].orderId # proc[p].order
          /\ commissions[k].status = "pending"

\* C14: the status of a commission entry is terminal once it is paid or
\* cancelled: no step turns a persisted cancelled entry into anything else,
\* nor a persisted paid entry.
C14_TerminalEntryStatus ==
  [][ \A i \in 1..Len(commissions) :
        /\ commissions[i].status = "cancelled"
             => commissions'[i].status = "cancelled"
        /\ commissions[i].status = "paid"
             => commissions'[i].status = "paid" ]_vars

\* C15: a create for an agent whose per-agent payout hold is set persists
\* no request, whatever the amount and the auto-approval policy.
C15_HeldAgentCreatesNothing ==
  [][ Len(payouts') > Len(payouts)
        => ~agentHold[payouts'[Len(payouts')].agentId] ]_vars

\* C16: a persisted request never asks for more than the agent's pending
\* balance as read by the validation, nor for an amount outside
\* [minWithdrawalAmount, maxWithdrawalAmount], whether or not a settings row
\* exists (handlers run one at a time here, so the balance read by the
\* validation is the balance when the request is persisted).
C16_PersistedWithinBalanceAndLimits ==
  [][ Len(payouts') > Len(payouts)
        => LET r == payouts'[Len(payouts')]
               cfg == IF settings = <<>> THEN DefaultSettings ELSE settings[1]
           IN /\ r.amount <= SumAmount(PendingDocs(r.agentId))
              /\ r.amount >= cfg.minWithdrawalAmount
              /\ r.amount <= cfg.maxWithdrawalAmount ]_vars

\* C17: a request is persisted only if the agent's requests of the last 24
\* hours are fewer than maxPayoutsPerDay and their amounts plus this one do
\* not exceed maxPayoutAmountPerDay, whether or not the request is
\* auto-approved.  (The settings row holds no weekly limit.)
C17_PersistedWithinDailyLimits ==
  [][ Len(payouts') > Len(payouts)
        => LET r == payouts'[Len(payouts')]
               cfg == IF settings = <<>> THEN DefaultSettings ELSE settings[1]
               recent == RecentPayouts(r.agentId, now)
           IN /\ Len(recent) < cfg.maxPayoutsPerDay
              /\ SumAmount(recent) + r.amount <= cfg.maxPayoutAmountPerDay ]_vars

\* C18: a request is persisted as approved exactly when the current policy
\* (the settings row, or the defaults while no row exists) has
\* requireManagerApproval false and the amount is at most
\* autoApprovalThreshold, and as pending otherwise; the create goes on to the
\* auto-payment exactly when the request was persisted as approved.
C18_ApprovedStartFollowsPolicy ==
  [][ \A p \in Procs :
        (proc[p].pc = "cp_create" /\ Len(payouts') > Len(payouts)) =>
          LET r == payouts'[Len(payouts')]
              cfg == IF settings = <<>> THEN DefaultSettings ELSE settings[1]
          IN /\ r.status = IF willAutoApprove(cfg, r.amount)
                           THEN "approved" ELSE "pending"
             /\ (proc'[p].pc = "find") = (r.status = "approved") ]_vars

\* C19: for type delivery the result is deliveryAmount * deliveryCount with
\* isFixedAmount true and rate deliveryAmount; for type agent_order it is
\* orderTotal * agentOrderRate rounded to the nearest whole unit with
\* isFixedAmount false and rate agentOrderRate, for every configured rate
\* from 0 to 100 percent.
C19_CalculateCommission ==
  \A p \in Procs :
     (proc[p].h = "calculate" /\ proc[p].pc = "respond") =>
       LET r == proc[p]
           res == r.out
       IN IF r.type = "delivery"
          THEN /\ res.amount = r.cfg.deliveryAmount * r.k
               /\ res.isFixedAmount
               /\ res.rate = r.cfg.deliveryAmount
          ELSE /\ 200 * res.amount - 100 <= 2 * r.amount * r.cfg.agentOrderPercent
               /\ 2 * r.amount * r.cfg.agentOrderPercent < 200 * res.amount + 100
               /\ ~res.isFixedAmount
               /\ res.rate = r.cfg.agentOrderPercent

\* minutes since midnight of an "H:MM" or "HH:MM" string
MinutesOf(s) ==
  IF Len(s) = 5
  THEN ((s[1] - 48) * 10 + (s[2] - 48)) * 60 + (s[4] - 48) * 10 + (s[5] - 48)
  ELSE (s[1] - 48) * 60 + (s[3] - 48) * 10 + (s[4] - 48)

\* the window as the policy states it, for the policy in force at time t
PolicyAllows(rows, t) ==
  LET cfg == IF rows = <<>> THEN DefaultSettings ELSE rows[1]
      sched == cfg.payoutSchedule
      minute == (t % DayHours) * 60
  IN /\ ~cfg.globalPayoutHold
     /\ \/ ~sched.enabled
        \/ /\ (t \div DayHours) % 7 = sched.dayOfWeek
           /\ MinutesOf(sched.startTime) <= minute
           /\ minute <= MinutesOf(sched.endTime)

\* C20: the window-status handlers answer open, and the create validation
\* raises neither the global-hold nor the window error, exactly when the
\* global hold is off and the schedule is disabled or the day matches and
\* the time of day lies within [startTime, endTime].
C20_WindowEvaluation ==
  [][ \A p \in Procs :
        /\ (Idle(p) /\ proc'[p].h \in {"window", "status"})
              => ((proc'[p].ret = "open") = PolicyAllows(settings, now))
        /\ (Idle(p) /\ proc'[p].h = "create")
              => ((proc'[p].errors \cap {"global_hold", "window"} = {})
                    = PolicyAllows(settings, now)) ]_vars

\* C21: when a handler reports the window closed because of the schedule,
\* the next window start it reports falls on schedule.dayOfWeek at
\* startTime, is strictly after now, and no such instant lies between now
\* and it.
C21_NextWindowIsEarliest ==
  [][ \A p \in Procs :
        ( /\ Idle(p)
          /\ proc'[p].h \in {"window", "status", "create"}
          /\ settings # <<>>
          /\ ~settings[1].globalPayoutHold
          /\ settings[1].payoutSchedule.enabled
          /\ \/ proc'[p].ret = "closed"
             \/ "window" \in proc'[p].errors )
        => LET n == proc'[p].next
               sched == settings[1].payoutSchedule
           IN /\ (n \div (DayHours * 60)) % 7 = sched.dayOfWeek
              /\ n % (DayHours * 60) = MinutesOf(sched.startTime)
              /\ n > now * 60
              /\ n - 7 * DayHours * 60 <= now * 60 ]_vars

\* C22: at most one settings row exists, under every interleaving of first
\* reads and admin updates of the policy.
C22_SingleSettingsRow == Len(settings) <= 1

HistoryOf(rows) == IF rows = <<>> THEN <<>> ELSE rows[1].modificationHistory

\* C23: a step of an admin mutation (update settings, set global hold,
\* update auto-approval settings) that changes the policy appends exactly
\* one record to modificationHistory, and every step leaves the earlier
\* history as a prefix of the later one.
C23_HistoryAppended ==
  [][ /\ Len(HistoryOf(settings')) >= Len(HistoryOf(settings))
      /\ SubSeq(HistoryOf(settings'), 1, Len(HistoryOf(settings)))
            = HistoryOf(settings)
      /\ \A p \in Procs :
            ( /\ proc[p].pc \in {"us_save", "gh_save", "aa_save", "au_save", "ah_save"}
              /\ proc'[p].pc # proc[p].pc
              /\ settings' # settings )
            => Len(HistoryOf(settings')) = Len(HistoryOf(settings)) + 1 ]_vars

\* C24: when the commission call made inside an order event fails, the
\* order operation still succeeds: the handler answers ok and the order
\* exists, respectively has the requested status.
C24_CommissionFailureKeepsOrder ==
  \A p \in Procs :
     ( /\ proc[p].h \in {"order_create", "order_status"}
       /\ proc[p].failed
       /\ proc[p].pc = "respond" )
     => /\ proc[p].ret = "ok"
        /\ orders[proc[p].order] = proc[p].st

C24_Witness ==
  \E p \in Procs :
     /\ proc[p].h = "order_status" /\ proc[p].failed /\ proc[p].pc = "respond"
     /\ proc[p].st = "cancelled"
     /\ orders[proc[p].order] = "cancelled"
     /\ \E i \in 1..Len(commissions) :
          commissions[i].orderId = proc[p].order /\ commissions[i].status = "pending"

\* C25: under overlapping admin actions on a request, a persisted status
\* paid or rejected never changes again, and once the request is paid no
\* further commission entry is settled against it.
C25_TerminalRequestStatus ==
  [][ \A i \in 1..Len(payouts) :
        payouts[i].status \in Terminal =>
          /\ payouts'[i].status = payouts[i].status
          /\ \A c \in 1..Len(commissions) :
                (payouts[i].status = "paid" /\ commissions'[c].payoutRequestId = i)
                  => commissions[c].payoutRequestId = i ]_vars


\* C26: when the auto-payment inside create finds that the agent's pending
\* balance no longer covers the request amount, the creation still ends
\* successfully, the request is approved and unpaid, and the step changes no
\* commission entry and no request.
C26_UncoveredAutoPaymentKeepsApproved ==
  [][\A p \in Procs :
       (/\ proc[p].h = "create" /\ proc[p].pc = "find"
        /\ proc'[p] # proc[p]
        /\ SumAmount(PendingDocs(proc[p].agent)) < proc[p].amount)
       => /\ proc'[p].pc = "respond" /\ proc'[p].ret = "ok"
          /\ proc'[p].out = proc[p].rid
          /\ payouts'[proc[p].rid].status = "approved"
          /\ payouts' = payouts
          /\ commissions' = commissions]_vars

\* a creation that passed validation answered with its request still
\* approved after a concurrent cancellation took the balance away
C26_Witness ==
  \E p \in Procs :
    /\ proc[p].h = "create" /\ proc[p].pc = "respond" /\ proc[p].auto
    /\ proc[p].ret = "ok" /\ proc[p].out = proc[p].rid
    /\ BalanceIn(proc[p].snapC, proc[p].agent) >= proc[p].amount
    /\ SumAmount(proc[p].docs) < proc[p].amount
    /\ payouts[proc[p].rid].status = "approved"
    /\ \E i \in 1..Len(commissions) :
         /\ commissions[i].agentId = proc[p].agent
         /\ commissions[i].status = "cancelled"


\* C27: once a status-update operation, of the order route or of the admin
\* dashboard route, has set an order to cancelled and answered, no
\* commission entry of that order is pending.
C27_CancelledOrderHasNoPending ==
  \A p \in Procs :
    (/\ proc[p].h \in {"order_status", "admin_status"}
     /\ proc[p].pc = "respond" /\ proc[p].st = "cancelled"
     /\ orders[proc[p].order] = "cancelled")
    => \A i \in 1..Len(commissions) :
          commissions[i].orderId = proc[p].order
            => commissions[i].status # "pending"


\* C28: recordCommission answers with an entry that existed when it was
\* called only if that entry is active (pending or paid); when every entry
\* of the triple is cancelled it persists a new pending entry instead.
C28_ExistingEntryReturnedIsActive ==
  \A p \in Procs :
    (/\ proc[p].h = "record" /\ proc[p].pc = "respond" /\ proc[p].ret = "ok"
     /\ proc[p].out \in 1..Len(proc[p].snapC))
    => proc[p].snapC[proc[p].out].status \in {"pending", "paid"}


\* C29: the remainder a split creates, in the admin pay and in the
\* auto-payment, is pending, carries the original entry's orderId, agentId,
\* type, orderTotal, rate, isFixedAmount, deliveryCount and settings
\* reference, amounts to the original amount less the paid slice, which is
\* positive, and its description is the original's with the split note.
C29_SplitRemainderClonesOriginal ==
  [][\A p \in Procs :
       (proc[p].pc = "split" /\ proc'[p].pc = "save")
       => LET doc == proc[p].docs[Len(proc[p].upd)]
              orig == commissions[doc.id]
              paid == proc[p].upd[Len(proc[p].upd)].amount
              rem == commissions'[Len(commissions')]
          IN /\ Len(commissions') = Len(commissions) + 1
             /\ rem.status = "pending"
             /\ rem.orderId = orig.orderId /\ rem.agentId = orig.agentId
             /\ rem.type = orig.type /\ rem.orderTotal = orig.orderTotal
             /\ rem.commissionRate = orig.commissionRate
             /\ rem.isFixedAmount = orig.isFixedAmount
             /\ rem.deliveryCount = orig.deliveryCount
             /\ rem.settingsVersion = orig.settingsVersion
             /\ rem.amount = orig.amount - paid /\ rem.amount > 0
             /\ rem.description = Append(orig.description, SplitRemaining(proc[p].h))]_vars


StampedWith(rid) ==
  Ascending({i \in 1..Len(commissions) : commissions[i].payoutRequestId = rid})

\* C30: the amounts of the commission entries stamped with a payout
\* request's id sum to at most the request's amount, and no commission
\* entry is listed as consumed by two payout requests.
C30_StampedWithinRequestAmount ==
  /\ \A rid \in 1..Len(payouts) :
        SumTo(commissions, StampedWith(rid), Len(StampedWith(rid)))
          <= payouts[rid].amount
  /\ \A r1, r2 \in 1..Len(payouts) :
        r1 # r2 =>
          \A m \in 1..Len(payouts[r1].commissionIds),
             n \in 1..Len(payouts[r2].commissionIds) :
               payouts[r1].commissionIds[m] # payouts[r2].commissionIds[n]

====
